---- MODULE Spec2Model ----
(***************************************************************************)
(* Model of the fNIRS toolkit's aggregation pipeline                       *)
(* (cred_fnirs_toolkit/fnirs_toolkit_cli.py and its two callers).          *)
(*                                                                         *)
(* Text that the code parses (file names, channel labels) is a sequence of *)
(* one-character strings, so that split, replace, lower, substring tests   *)
(* and the S<n>_D<n> pattern are computed, not assumed.  Text that the     *)
(* code only compares for equality (block labels, region names) is a       *)
(* string.  A float is a record: "no value" (NaN) or an exact rational.    *)
(***************************************************************************)
EXTENDS Integers, Sequences, FiniteSets, TLC

VARIABLES
    \* one call of get_hemoglobin_averages
    raw_haemo,        \* the series handed to get_hemoglobin_averages
    blocks,           \* the windows [block_start, block_end) its loop defined
    results,          \* the rows it returned
    hb_pc,            \* "ready" before the call, "done" after it
    \* one run of process_snirf_files and of its caller
    disk,             \* input_dir: file name -> what conversion yields for it
    snirf_files,      \* list(input_path.glob("*.snirf"))
    file_idx,         \* number of files the loop has gone through
    all_averages,     \* the per-file frames that succeeded
    all_blocks_seen,  \* the block-order list
    combined_df,      \* pd.concat(all_averages)
    detailed_pivot,   \* the detailed table as saved
    mapping_seen,     \* what lines 288-290 found for the mapping artifact
    channel_to_region,\* the lookup load_channel_mapping returned
    regions_data,     \* region name -> the rows averaged for that region
    region_pivots,    \* region name -> region table as saved
    csv_saved,        \* the tables written: "detailed" and region names
    heatmaps,         \* the regions whose heatmap was saved
    log,              \* the messages printed
    pc,               \* position in process_snirf_files
    report,           \* what the caller told the user once the run ended
    \* one call of extract_trial_name
    tn_file,          \* snirf_file, the path handed to extract_trial_name
    tn_name,          \* the trial name it returned
    tn_pc,            \* "ready" before the call, "done" after it
    \* the window of the GUI and its worker thread
    process_button,   \* state of the Run button: "normal" or "disabled"
    progress,         \* the progress bar: "stopped" or "running"
    sys_stdout,       \* the stream sys.stdout is bound to
    old_stdout,       \* the worker's local old_stdout
    thread_pc,        \* position of the worker in process_files_thread
    threads,          \* number of worker threads started and not yet over
    runs,             \* number of clicks on Run that reached process_files
    input_dir,        \* self.input_dir, the Input Directory field
    output_dir,       \* self.output_dir, the Output Directory field
    mapping_file,     \* self.mapping_file, the Channel Mapping field
    th_input_dir,     \* the worker's local input_dir
    th_mapping_file   \* the worker's local mapping_file

hbvars == <<raw_haemo, blocks, results, hb_pc>>

runvars == <<disk, snirf_files, file_idx, all_averages, all_blocks_seen,
             combined_df, detailed_pivot, mapping_seen, channel_to_region,
             regions_data, region_pivots, csv_saved,
             heatmaps, log, pc, report>>

tnvars == <<tn_file, tn_name, tn_pc>>

guivars == <<process_button, progress, sys_stdout, old_stdout, thread_pc,
             threads, runs, input_dir, output_dir, mapping_file,
             th_input_dir, th_mapping_file>>

vars == <<hbvars, runvars, tnvars, guivars>>

-----------------------------------------------------------------------------
(* Bounds of the model.                                                    *)
MaxSamples == 2       \* n_samples ranges over 1..MaxSamples
MaxEvents  == 2       \* a series carries at most MaxEvents annotations
MaxFiles   == 2       \* the input directory holds at most MaxFiles files

(* raw_intensity.resample(5): every series reaches the extractor at 5 Hz.  *)
SFreq == 5

-----------------------------------------------------------------------------
(* Generic helpers.                                                        *)

RECURSIVE GCD(_, _)
GCD(a, b) == IF b = 0 THEN a ELSE GCD(b, a % b)

Abs(x) == IF x < 0 THEN -x ELSE x

NaN == [nan |-> TRUE, num |-> 0, den |-> 1]

\* The float n/d (d > 0), kept in lowest terms so that equal values are equal.
Rat(n, d) ==
    LET g == GCD(Abs(n), d)
    IN  [nan |-> FALSE, num |-> n \div g, den |-> d \div g]

RatAdd(a, b) == Rat(a.num * b.den + b.num * a.den, a.den * b.den)

RECURSIVE SumSeq(_)
SumSeq(xs) == IF xs = <<>> THEN 0 ELSE Head(xs) + SumSeq(Tail(xs))

RECURSIVE SumSq(_)
SumSq(xs) == IF xs = <<>> THEN 0 ELSE Head(xs) * Head(xs) + SumSq(Tail(xs))

Range(s) == {s[i] : i \in DOMAIN s}

\* xs[start:end] of a Python/numpy sequence (0-based, half open, clipped).
Slice(xs, start, end) ==
    LET lo == IF start > Len(xs) THEN Len(xs) ELSE start
        hi == IF end > Len(xs) THEN Len(xs) ELSE end
    IN  IF hi <= lo THEN <<>> ELSE SubSeq(xs, lo + 1, hi)

\* A plausible slip of line 123: the mean of an empty slice taken as 0.
NpMeanZeroWhenEmpty(xs) == IF Len(xs) = 0 THEN Rat(0, 1) ELSE Rat(SumSeq(xs), Len(xs))

\* np.mean of a 1-D slice of integers: NaN (with a warning) when it is empty.
NpMean(xs) == IF Len(xs) = 0 THEN NaN ELSE Rat(SumSeq(xs), Len(xs))

\* np.std of a 1-D slice, represented by its square (the population
\* variance), which is rational; NaN when the slice is empty.
NpStd(xs) ==
    IF Len(xs) = 0 THEN NaN
    ELSE Rat(Len(xs) * SumSq(xs) - SumSeq(xs) * SumSeq(xs), Len(xs) * Len(xs))

-----------------------------------------------------------------------------
(* Text as sequences of characters.                                        *)

Digits == {"0", "1", "2", "3", "4", "5", "6", "7", "8", "9"}

\* str.lower() on the letters that occur in the labels of the model.
LowerChar(c) ==
    CASE c = "H" -> "h"
      [] c = "B" -> "b"
      [] c = "O" -> "o"
      [] c = "R" -> "r"
      [] c = "S" -> "s"
      [] c = "D" -> "d"
      [] c = "A" -> "a"
      [] c = "X" -> "x"
      [] OTHER   -> c

Lower(s) == [i \in 1..Len(s) |-> LowerChar(s[i])]

\* s[i:i+len(p)] == p, for a 1-based position i.
MatchesAt(s, p, i) ==
    /\ i + Len(p) - 1 <= Len(s)
    /\ \A k \in 1..Len(p) : s[i + k - 1] = p[k]

\* p in s
Contains(s, p) == \E i \in 1..(Len(s) + 1) : MatchesAt(s, p, i)

HBO == <<"h", "b", "o">>
HBR == <<"h", "b", "r">>

\* The hb_type chain of get_hemoglobin_averages.
HbTypeOf(ch_name) ==
    IF Contains(Lower(ch_name), HBO) THEN "HbO"
    ELSE IF Contains(Lower(ch_name), HBR) THEN "HbR"
    ELSE "Unknown"

-----------------------------------------------------------------------------
(* get_hemoglobin_averages                                                 *)

NSamples(raw) == Len(raw.data[1])          \* len(data[0])

\* The label the loop finds for event event_idx (0-based): the annotation's
\* description, or Block_<event_idx> when that is empty (falsy).
EventLabel(events, event_idx) ==
    LET event_label == events[event_idx + 1].label
    IN  IF event_label # "" THEN event_label
        ELSE "Block_" \o ToString(event_idx)

BlockStart(events, event_idx) == events[event_idx + 1].sample

\* A plausible slip of lines 105-108: the block ended at its own event
\* (events[event_idx] for events[event_idx + 1]), the last one included.
BlockEndAtOwnEvent(events, event_idx, n_samples) == events[event_idx + 1].sample

BlockEnd(events, event_idx, n_samples) ==
    IF event_idx < Len(events) - 1
    THEN events[event_idx + 2].sample
    ELSE n_samples

\* The windows of the event loop, in loop order.
BlockWindows(raw) ==
    [i \in 1..Len(raw.events) |->
        [start |-> BlockStart(raw.events, i - 1),
         end   |-> BlockEnd(raw.events, i - 1, NSamples(raw)),
         label |-> EventLabel(raw.events, i - 1)]]

\* One appended row: channel ch_idx (1-based) over the window [start, end).
MeasurementRow(raw, trial_name, label, start, end, ch_idx) ==
    LET block_data == Slice(raw.data[ch_idx], start, end)
    IN  [Trial            |-> trial_name,
         Block            |-> label,
         Channel          |-> raw.ch_names[ch_idx],
         HbType           |-> HbTypeOf(raw.ch_names[ch_idx]),
         Mean_Value       |-> NpMean(block_data),
         Std_Value        |-> NpStd(block_data),
         Block_Duration_s |-> Rat(end - start, raw.sfreq)]

\* Rows of the event branch: blocks outermost, channels innermost.
EventRows(raw, trial_name) ==
    LET w  == BlockWindows(raw)
        nc == Len(raw.ch_names)
    IN  [k \in 1..(Len(w) * nc) |->
            LET b == ((k - 1) \div nc) + 1
                c == ((k - 1) % nc) + 1
            IN  MeasurementRow(raw, trial_name, w[b].label, w[b].start, w[b].end, c)]

\* A plausible slip of the else branch: the duration left in samples.
EntireRecordingRowsInSamples(raw, trial_name) ==
    [c \in 1..Len(raw.ch_names) |->
        [Trial            |-> trial_name,
         Block            |-> "Entire_Recording",
         Channel          |-> raw.ch_names[c],
         HbType           |-> HbTypeOf(raw.ch_names[c]),
         Mean_Value       |-> NpMean(raw.data[c]),
         Std_Value        |-> NpStd(raw.data[c]),
         Block_Duration_s |-> Rat(NSamples(raw), 1)]]

\* Rows of the else branch: the whole recording as one block.
EntireRecordingRows(raw, trial_name) ==
    [c \in 1..Len(raw.ch_names) |->
        [Trial            |-> trial_name,
         Block            |-> "Entire_Recording",
         Channel          |-> raw.ch_names[c],
         HbType           |-> HbTypeOf(raw.ch_names[c]),
         Mean_Value       |-> NpMean(raw.data[c]),
         Std_Value        |-> NpStd(raw.data[c]),
         Block_Duration_s |-> Rat(NSamples(raw), raw.sfreq)]]

GetHemoglobinAverages(raw, trial_name) ==
    IF Len(raw.events) > 0
    THEN EventRows(raw, trial_name)
    ELSE EntireRecordingRows(raw, trial_name)

-----------------------------------------------------------------------------
(* extract_trial_name                                                      *)

\* s.replace(p, ""): every non-overlapping occurrence removed, left to right.
RECURSIVE RemoveAll(_, _)
RemoveAll(s, p) ==
    IF s = <<>> THEN <<>>
    ELSE IF MatchesAt(s, p, 1)
         THEN RemoveAll(SubSeq(s, Len(p) + 1, Len(s)), p)
         ELSE <<Head(s)>> \o RemoveAll(Tail(s), p)

\* s.split(sep) for a one-character separator: never an empty list.
RECURSIVE Split(_, _)
Split(s, sep) ==
    IF \A i \in 1..Len(s) : s[i] # sep THEN <<s>>
    ELSE LET i == CHOOSE j \in 1..Len(s) :
                      s[j] = sep /\ \A k \in 1..(j - 1) : s[k] # sep
         IN  <<SubSeq(s, 1, i - 1)>> \o Split(SubSeq(s, i + 1, Len(s)), sep)

\* os.path.basename: what follows the last "/".
RECURSIVE Basename(_)
Basename(path) ==
    IF \A i \in 1..Len(path) : path[i] # "/" THEN path
    ELSE Basename(Tail(path))

DotSnirf == <<".", "s", "n", "i", "r", "f">>

ExtractTrialName(snirf_file) ==
    LET filename       == Basename(snirf_file)
        filename_parts == Split(RemoveAll(filename, DotSnirf), "_")
    IN  IF Len(filename_parts) >= 3
        THEN filename_parts[2] \o <<"_">> \o filename_parts[3]
        ELSE RemoveAll(filename, DotSnirf)

-----------------------------------------------------------------------------
(* extract_source_detector and load_channel_mapping                        *)

\* Last position of the run of digits of s that starts at i (i - 1: none).
RECURSIVE DigitRunEnd(_, _)
DigitRunEnd(s, i) ==
    IF i <= Len(s) /\ s[i] \in Digits THEN DigitRunEnd(s, i + 1) ELSE i - 1

\* Last position of a match of S(\d+)_D(\d+) that starts at i, or 0.  \d+ is
\* greedy, and giving digits back never helps: the next character must be
\* "_", which is no digit.
MatchSDAt(s, i) ==
    IF i > Len(s) \/ s[i] # "S" THEN 0
    ELSE LET j == DigitRunEnd(s, i + 1)
         IN  IF j < i + 1 \/ ~MatchesAt(s, <<"_", "D">>, j + 1) THEN 0
             ELSE LET k == DigitRunEnd(s, j + 3)
                  IN  IF k < j + 3 THEN 0 ELSE k

\* None, as returned when re.search finds nothing.
NoKey == <<>>

ExtractSourceDetector(channel_name) ==
    IF \A i \in 1..Len(channel_name) : MatchSDAt(channel_name, i) = 0 THEN NoKey
    ELSE LET i == CHOOSE j \in 1..Len(channel_name) :
                      /\ MatchSDAt(channel_name, j) > 0
                      /\ \A k \in 1..(j - 1) : MatchSDAt(channel_name, k) = 0
         IN  SubSeq(channel_name, i, MatchSDAt(channel_name, i))

DigitChars == <<"0", "1", "2", "3", "4", "5", "6", "7", "8", "9">>

\* str(n) of a non-negative integer.
RECURSIVE IntToChars(_)
IntToChars(n) ==
    IF n < 10 THEN <<DigitChars[n + 1]>>
    ELSE IntToChars(n \div 10) \o <<DigitChars[(n % 10) + 1]>>

MappingKey(entry) ==
    <<"S">> \o IntToChars(entry.source) \o <<"_", "D">> \o IntToChars(entry.detector)

\* An entry that lacks one of the three keys makes the loop raise KeyError.
EntryIsComplete(entry) == {"source", "detector", "region"} \subseteq DOMAIN entry

\* The content of the mapping file: text json.load rejects, or the list of
\* entries it returns.
MappingLoadRaises(content) ==
    \/ content.malformed
    \/ \E i \in 1..Len(content.entries) : ~EntryIsComplete(content.entries[i])

\* The lookup key -> region, a later entry overwriting an earlier one.
LoadChannelMapping(content) ==
    LET entries == content.entries
        keys    == {MappingKey(entries[i]) : i \in 1..Len(entries)}
        last(k) == CHOOSE i \in 1..Len(entries) :
                       /\ MappingKey(entries[i]) = k
                       /\ \A j \in (i + 1)..Len(entries) : MappingKey(entries[j]) # k
    IN  [k \in keys |-> entries[last(k)].region]

\* NaN, the Region of a row whose key is not in the mapping.
NoRegion == "NaN"

\* .apply(extract_source_detector) followed by .map(channel_to_region)
RegionOf(channel_name, c2r) ==
    LET key == ExtractSourceDetector(channel_name)
    IN  IF key \in DOMAIN c2r THEN c2r[key] ELSE NoRegion

-----------------------------------------------------------------------------
(* pivot_table(index, columns='Block', values='Mean_Value', aggfunc='mean') *)
(* with pandas' defaults.  The mean of a group skips NaN; a group with no   *)
(* value is dropped (dropna=True), and with it a row or a column that has   *)
(* no group left.  pandas sorts the rows and columns by label; the rows are *)
(* kept here as a set, and the columns get their order from the reindexing  *)
(* that follows every pivot_table call in the code.                         *)

RatDivInt(r, k) == Rat(r.num, r.den * k)

RECURSIVE SumRat(_)
SumRat(vs) == IF vs = <<>> THEN Rat(0, 1) ELSE RatAdd(Head(vs), SumRat(Tail(vs)))

IsValue(v) == ~v.nan

\* Series.mean(): the mean of the values that are not NaN, NaN if none is.
MeanSkipNaN(vs) ==
    LET present == SelectSeq(vs, IsValue)
    IN  IF present = <<>> THEN NaN ELSE RatDivInt(SumRat(present), Len(present))

\* The Mean_Value column of the rows of df that fall in group (i, c); keys
\* holds, row by row, the value of the index column.
GroupValues(df, keys, i, c) ==
    LET members == {k \in 1..Len(df) : keys[k] = i /\ df[k].Block = c}
        InGroup(k) == k \in members
        at      == SelectSeq([k \in 1..Len(df) |-> k], InGroup)
    IN  [k \in 1..Len(at) |-> df[at[k]].Mean_Value]

PivotTable(df, keys) ==
    LET groups == {<<keys[k], df[k].Block>> : k \in 1..Len(df)}
        agg(g) == MeanSkipNaN(GroupValues(df, keys, g[1], g[2]))
        kept   == {g \in groups : IsValue(agg(g))}
        index  == {g[1] : g \in kept}
        cols   == {g[2] : g \in kept}
    IN  [index   |-> index,
         columns |-> cols,
         cells   |-> [g \in index \X cols |-> IF g \in kept THEN agg(g) ELSE NaN]]

InSet(S, x) == x \in S

\* A plausible slip of lines 278 and 327: the columns left in the label
\* order pivot_table returns them in.
ExistingBlocksAsPivoted(block_order, pivot) ==
    LET Present(block) == InSet(pivot.columns, block)
    IN  SelectSeq(<<"A", "B", "C", "Entire_Recording">>, Present)

\* existing_blocks = [block for block in block_order if block in pivot.columns]
ExistingBlocks(block_order, pivot) ==
    LET Present(block) == InSet(pivot.columns, block)
    IN  SelectSeq(block_order, Present)

\* pivot[existing_blocks]: the listed columns, in the listed order.
Reindex(pivot, existing_blocks) ==
    [index   |-> pivot.index,
     columns |-> existing_blocks,
     cells   |-> [g \in pivot.index \X Range(existing_blocks) |-> pivot.cells[g]]]

IsHbO(r) == r.HbType = "HbO"

RowLabel(r) == r.Trial \o <<" ", "|", " ">> \o r.Channel

\* Lines 267-279: the detailed table, columns in block order.
DetailedPivot(df, block_order) ==
    LET hbo_df == SelectSeq(df, IsHbO)
        pivot  == PivotTable(hbo_df, [k \in 1..Len(hbo_df) |-> RowLabel(hbo_df[k])])
    IN  Reindex(pivot, ExistingBlocks(block_order, pivot))

\* A plausible slip of line 306: the notna filter left out.
MappedRowsUnfiltered(df, c2r) == SelectSeq(df, IsHbO)

\* Lines 294-307: the HbO rows whose channel maps to a region.
MappedRows(df, c2r) ==
    LET IsMapped(r) == IsHbO(r) /\ RegionOf(r.Channel, c2r) # NoRegion
    IN  SelectSeq(df, IsMapped)

\* len(unmapped): the HbO rows whose Region is NaN.
UnmappedRows(df, c2r) ==
    LET IsUnmapped(r) == IsHbO(r) /\ RegionOf(r.Channel, c2r) = NoRegion
    IN  SelectSeq(df, IsUnmapped)

UniqueRegions(df, c2r) ==
    LET clean == MappedRows(df, c2r)
    IN  {RegionOf(clean[k].Channel, c2r) : k \in 1..Len(clean)}

\* Lines 316-328: the table of one region, columns in block order.
RegionPivot(df, c2r, block_order, region) ==
    LET InRegion(r) == RegionOf(r.Channel, c2r) = region
        region_data == SelectSeq(MappedRows(df, c2r), InRegion)
        pivot       == PivotTable(region_data,
                                  [k \in 1..Len(region_data) |-> region_data[k].Trial])
    IN  Reindex(pivot, ExistingBlocks(block_order, pivot))

-----------------------------------------------------------------------------
(* The file loop of process_snirf_files.                                   *)

\* Series.unique(): the distinct values in order of first appearance.
RECURSIVE Unique(_)
Unique(xs) ==
    IF xs = <<>> THEN <<>>
    ELSE LET rest == Unique(SubSeq(xs, 1, Len(xs) - 1))
             last == xs[Len(xs)]
         IN  IF last \in Range(rest) THEN rest ELSE Append(rest, last)

FileBlocks(averages_df) ==
    Unique([k \in 1..Len(averages_df) |-> averages_df[k].Block])

\* A plausible slip of lines 237-239: the membership test left out.
MergeBlocksNoMembershipTest(seen, file_blocks) == seen \o file_blocks

\* Lines 237-239: append the labels not yet in the list, in file order.
RECURSIVE MergeBlocks(_, _)
MergeBlocks(seen, file_blocks) ==
    IF file_blocks = <<>> THEN seen
    ELSE MergeBlocks(IF Head(file_blocks) \in Range(seen) THEN seen
                     ELSE Append(seen, Head(file_blocks)),
                     Tail(file_blocks))

\* raw_intensity_to_hemo followed by get_hemoglobin_averages on one path.
AveragesOf(dir, snirf_file) ==
    GetHemoglobinAverages(dir[Basename(snirf_file)].raw, ExtractTrialName(snirf_file))

\* Conversion or extraction of the file raises.
FileRaises(dir, snirf_file) == ~dir[Basename(snirf_file)].ok

\* A plausible slip of the loop body: the try around the whole loop, so that
\* a failing file ends the loop with nothing kept.
ProcessOneTryAroundLoop(dir, st, snirf_file) ==
    IF FileRaises(dir, snirf_file) THEN [averages |-> <<>>, blocks_seen |-> <<>>]
    ELSE LET averages_df == AveragesOf(dir, snirf_file)
         IN  [averages    |-> Append(st.averages, averages_df),
              blocks_seen |-> MergeBlocks(st.blocks_seen, FileBlocks(averages_df))]

\* One pass of the loop body over loop state st = [averages, blocks_seen].
ProcessOne(dir, st, snirf_file) ==
    IF FileRaises(dir, snirf_file) THEN st
    ELSE LET averages_df == AveragesOf(dir, snirf_file)
         IN  [averages    |-> Append(st.averages, averages_df),
              blocks_seen |-> MergeBlocks(st.blocks_seen, FileBlocks(averages_df))]

\* The loop state after the whole loop over a listing.
RECURSIVE FileLoop(_, _)
FileLoop(dir, listing) ==
    IF listing = <<>> THEN [averages |-> <<>>, blocks_seen |-> <<>>]
    ELSE ProcessOne(dir,
                    FileLoop(dir, SubSeq(listing, 1, Len(listing) - 1)),
                    listing[Len(listing)])

\* pd.concat(all_averages, ignore_index=True)
RECURSIVE Concat(_)
Concat(frames) == IF frames = <<>> THEN <<>> ELSE Head(frames) \o Concat(Tail(frames))

-----------------------------------------------------------------------------
(* The state of a run that has not started.                                *)

NoTable == [index |-> {}, columns |-> <<>>, cells |-> <<>>]

NoReport == [caller |-> "none", outcome |-> "none"]

\* Everything process_snirf_files starts from, but the directory.
RunFresh ==
    /\ snirf_files = <<>>
    /\ file_idx = 0
    /\ all_averages = <<>>
    /\ all_blocks_seen = <<>>
    /\ combined_df = <<>>
    /\ detailed_pivot = NoTable
    /\ mapping_seen = "unread"
    /\ channel_to_region = <<>>
    /\ regions_data = <<>>
    /\ region_pivots = <<>>
    /\ csv_saved = {}
    /\ heatmaps = {}
    /\ log = {}
    /\ report = NoReport

\* No call of extract_trial_name is modelled.
TnIdle ==
    /\ tn_file = <<>>
    /\ tn_name = <<>>
    /\ tn_pc = "off"

Console == "console"

\* The window as create_widgets leaves it, sys.stdout being the console.
GuiFresh ==
    /\ process_button = "normal"
    /\ progress = "stopped"
    /\ sys_stdout = Console
    /\ old_stdout = "unset"
    /\ thread_pc = "none"
    /\ threads = 0
    /\ runs = 0
    /\ input_dir = ""
    /\ output_dir = "output"
    /\ mapping_file = ""
    /\ th_input_dir = "unset"
    /\ th_mapping_file = "unset"

RunIdle ==
    /\ RunFresh
    /\ disk = <<>>
    /\ pc = "idle"
    /\ TnIdle
    /\ GuiFresh

-----------------------------------------------------------------------------
(* Inputs of the extractor: every series within the bounds.                *)

Values == {0, 1}

AnnotationLabels == {"A", "B", ""}

\* Channel label lists of the converted series.
ChHbO1 == <<"S", "1", "_", "D", "1", " ", "h", "b", "o">>
ChHbR1 == <<"S", "1", "_", "D", "1", " ", "h", "b", "r">>
ChHbO2 == <<"S", "2", "_", "D", "1", " ", "h", "b", "o">>
ChAux  == <<"A", "U", "X">>

HbChannelLists == {<<ChHbO1>>, <<ChHbO1, ChHbR1>>, <<ChHbO2, ChAux>>}

\* mne returns the events ordered by sample index, each at a sample of the
\* recording; ties are possible.
IsSortedEvents(ev) == \A i \in 1..(Len(ev) - 1) : ev[i].sample <= ev[i + 1].sample

EventLists(n, max_events) ==
    UNION {
        {ev \in [1..k -> [sample : 0..(n - 1), label : AnnotationLabels]] :
            IsSortedEvents(ev)} : k \in 0..max_events}

\* The sample array of a series: channel 1 carries the signal base, and
\* channel c the same signal raised by c - 1.
ChannelData(base, n_channels) ==
    [c \in 1..n_channels |-> [t \in 1..Len(base) |-> base[t] + c - 1]]

SeriesSet(max_samples, max_events) ==
    UNION {
        {[ch_names |-> cs, sfreq |-> SFreq, events |-> ev,
          data |-> ChannelData(base, Len(cs))] :
            ev \in EventLists(n, max_events), base \in [1..n -> Values]} :
        cs \in HbChannelLists, n \in 1..max_samples}

TrialX == <<"x">>

InitHb ==
    /\ raw_haemo \in SeriesSet(MaxSamples, MaxEvents)
    /\ blocks = <<>>
    /\ results = <<>>
    /\ hb_pc = "ready"
    /\ RunIdle

\* The call on a series that has annotations (the if branch).
HbWithEvents ==
    /\ hb_pc = "ready"
    /\ Len(raw_haemo.events) > 0
    /\ blocks' = BlockWindows(raw_haemo)
    /\ results' = GetHemoglobinAverages(raw_haemo, TrialX)
    /\ hb_pc' = "done"
    /\ UNCHANGED <<raw_haemo, runvars, tnvars, guivars>>

\* The call on a series without annotations (the else branch).
HbEntireRecording ==
    /\ hb_pc = "ready"
    /\ Len(raw_haemo.events) = 0
    /\ blocks' = <<>>
    /\ results' = GetHemoglobinAverages(raw_haemo, TrialX)
    /\ hb_pc' = "done"
    /\ UNCHANGED <<raw_haemo, runvars, tnvars, guivars>>

NextHb == HbWithEvents \/ HbEntireRecording

SpecHb == InitHb /\ [][NextHb]_vars

-----------------------------------------------------------------------------
(* Inputs of a run: a directory of up to MaxFiles files, each either       *)
(* failing in conversion or converted to one of the recordings below.      *)

RunSamples == 3       \* n_samples of the recordings of a run

InputDir == <<"d", "/">>

\* 1_A_7.snirf and 2_A_7.snirf resolve to the same trial, A_7.
FileNames ==
    {<<"1", "_", "A", "_", "7">> \o DotSnirf,
     <<"2", "_", "A", "_", "7">> \o DotSnirf,
     <<"x">> \o DotSnirf}

ChHbO9    == <<"S", "9", "_", "D", "9", " ", "H", "b", "O">>
ChAuxHbO  == <<"a", "u", "x", " ", "h", "b", "o">>

RunChannelLists == {<<ChHbO1, ChHbO2, ChHbR1>>, <<ChHbO1, ChHbO9, ChAuxHbO>>}

Ev(sample, label) == [sample |-> sample, label |-> label]

\* No annotation; blocks A, B from sample 0 on; and a first annotation
\* after sample 0 whose block B is empty because C starts with it.
RunEventLists ==
    {<<>>,
     <<Ev(0, "A"), Ev(1, "B")>>,
     <<Ev(1, "B"), Ev(1, "C")>>}

\* The signal of the recordings of a run: a ramp 1, 2, ..., n.
Ramp(n) == [t \in 1..n |-> t]

Recordings ==
    {[ch_names |-> cs, sfreq |-> SFreq, events |-> ev,
      data |-> ChannelData(Ramp(RunSamples), Len(cs))] :
        cs \in RunChannelLists, ev \in RunEventLists}

Corrupt == [ok |-> FALSE]

FileContents == {Corrupt} \cup {[ok |-> TRUE, raw |-> r] : r \in Recordings}

Directories ==
    UNION {[names -> FileContents] :
              names \in {S \in SUBSET FileNames : Cardinality(S) <= MaxFiles}}

\* Every order in which glob may enumerate the directory.
Listings(dir) ==
    LET n == Cardinality(DOMAIN dir)
    IN  {[k \in 1..n |-> InputDir \o l[k]] :
            l \in {m \in [1..n -> DOMAIN dir] :
                      \A i, j \in 1..n : m[i] = m[j] => i = j}}

Entry(source, detector, region) ==
    [source |-> source, detector |-> detector, region |-> region]

\* What the mapping file may hold when it exists.
MappingContents ==
    {[malformed |-> TRUE, entries |-> <<>>],
     [malformed |-> FALSE, entries |-> <<Entry(1, 1, "PFC"), [source |-> 2, detector |-> 1]>>],
     [malformed |-> FALSE, entries |-> <<Entry(1, 1, "PFC"), Entry(2, 1, "PFC")>>],
     [malformed |-> FALSE, entries |-> <<Entry(1, 1, "PFC"), Entry(2, 1, "Motor")>>]}

HbIdle ==
    /\ raw_haemo = <<>>
    /\ blocks = <<>>
    /\ results = <<>>
    /\ hb_pc = "off"

Init ==
    /\ HbIdle
    /\ TnIdle
    /\ GuiFresh
    /\ RunFresh
    /\ disk \in Directories
    /\ pc = "start"

-----------------------------------------------------------------------------
(* process_snirf_files, one action per step.                               *)

Msg(msg, n) == [msg |-> msg, n |-> n]

\* Lines 214-218: the directory holds no .snirf file; print and return.
GlobNoFiles ==
    /\ pc = "start"
    /\ DOMAIN disk = {}
    /\ snirf_files' = <<>>
    /\ log' = log \cup {Msg("no_snirf_files", 0)}
    /\ pc' = "returned"
    /\ UNCHANGED <<hbvars, tnvars, guivars, disk, file_idx, all_averages, all_blocks_seen,
                   combined_df, detailed_pivot, mapping_seen, channel_to_region,
                   regions_data, region_pivots, csv_saved, heatmaps, report>>

\* Line 214: glob lists the files, in an order of its own.
GlobFiles ==
    /\ pc = "start"
    /\ DOMAIN disk # {}
    /\ snirf_files' \in Listings(disk)
    /\ pc' = "loop"
    /\ UNCHANGED <<hbvars, tnvars, guivars, disk, file_idx, all_averages, all_blocks_seen,
                   combined_df, detailed_pivot, mapping_seen, channel_to_region,
                   regions_data, region_pivots, csv_saved, heatmaps, log, report>>

LoopState == [averages |-> all_averages, blocks_seen |-> all_blocks_seen]

\* Lines 229-242: the next file converts and is extracted.
LoopFileOk ==
    /\ pc = "loop"
    /\ file_idx < Len(snirf_files)
    /\ ~FileRaises(disk, snirf_files[file_idx + 1])
    /\ LET st == ProcessOne(disk, LoopState, snirf_files[file_idx + 1])
       IN  /\ all_averages' = st.averages
           /\ all_blocks_seen' = st.blocks_seen
    /\ log' = log \cup {Msg("processed", file_idx + 1)}
    /\ file_idx' = file_idx + 1
    /\ UNCHANGED <<hbvars, tnvars, guivars, disk, snirf_files, combined_df, detailed_pivot,
                   mapping_seen, channel_to_region, regions_data, region_pivots,
                   csv_saved, heatmaps, pc, report>>

\* Lines 243-244: the next file raises; the except clause prints and goes on.
LoopFileRaises ==
    /\ pc = "loop"
    /\ file_idx < Len(snirf_files)
    /\ FileRaises(disk, snirf_files[file_idx + 1])
    /\ LET st == ProcessOne(disk, LoopState, snirf_files[file_idx + 1])
       IN  /\ all_averages' = st.averages
           /\ all_blocks_seen' = st.blocks_seen
    /\ log' = log \cup {Msg("file_error", file_idx + 1)}
    /\ file_idx' = file_idx + 1
    /\ UNCHANGED <<hbvars, tnvars, guivars, disk, snirf_files, combined_df, detailed_pivot,
                   mapping_seen, channel_to_region, regions_data, region_pivots,
                   csv_saved, heatmaps, pc, report>>

\* Lines 254-256: nothing was processed; print and return.
NoneProcessed ==
    /\ pc = "loop"
    /\ file_idx = Len(snirf_files)
    /\ all_averages = <<>>
    /\ log' = log \cup {Msg("none_processed", 0)}
    /\ pc' = "returned"
    /\ UNCHANGED <<hbvars, tnvars, guivars, disk, snirf_files, file_idx, all_averages,
                   all_blocks_seen, combined_df, detailed_pivot, mapping_seen,
                   channel_to_region, regions_data, region_pivots, csv_saved,
                   heatmaps, report>>

\* Lines 259-285: concatenate, build the detailed table and save it.
BuildDetailed ==
    /\ pc = "loop"
    /\ file_idx = Len(snirf_files)
    /\ all_averages # <<>>
    /\ combined_df' = Concat(all_averages)
    /\ detailed_pivot' = DetailedPivot(Concat(all_averages), all_blocks_seen)
    /\ csv_saved' = csv_saved \cup {"detailed"}
    /\ pc' = "mapping"
    /\ UNCHANGED <<hbvars, tnvars, guivars, disk, snirf_files, file_idx, all_averages,
                   all_blocks_seen, mapping_seen, channel_to_region,
                   regions_data, region_pivots, heatmaps, log, report>>

\* Lines 288 and 394: no mapping file was given.
SkipNoMappingGiven ==
    /\ pc = "mapping"
    /\ mapping_seen' = "absent"
    /\ log' = log \cup {Msg("skip_regions", 0)}
    /\ pc' = "returned"
    /\ UNCHANGED <<hbvars, tnvars, guivars, disk, snirf_files, file_idx, all_averages,
                   all_blocks_seen, combined_df, detailed_pivot,
                   channel_to_region, regions_data, region_pivots, csv_saved,
                   heatmaps, report>>

\* Lines 288 and 392-394: the given path does not exist.
SkipMappingNotFound ==
    /\ pc = "mapping"
    /\ mapping_seen' = "missing"
    /\ log' = log \cup {Msg("mapping_not_found", 0), Msg("skip_regions", 0)}
    /\ pc' = "returned"
    /\ UNCHANGED <<hbvars, tnvars, guivars, disk, snirf_files, file_idx, all_averages,
                   all_blocks_seen, combined_df, detailed_pivot,
                   channel_to_region, regions_data, region_pivots, csv_saved,
                   heatmaps, report>>

\* Line 290: the file exists and load_channel_mapping raises; nothing in
\* process_snirf_files catches it.
LoadMappingRaises ==
    /\ pc = "mapping"
    /\ \E content \in MappingContents : MappingLoadRaises(content)
    /\ mapping_seen' = "invalid"
    /\ pc' = "raised"
    /\ UNCHANGED <<hbvars, tnvars, guivars, disk, snirf_files, file_idx, all_averages,
                   all_blocks_seen, combined_df, detailed_pivot,
                   channel_to_region, regions_data, region_pivots, csv_saved,
                   heatmaps, log, report>>

\* Lines 289-390: the mapping loads; region tables are built and saved, and
\* the renderer saves the heatmap of a region or fails on it (caught).
RegionAnalysis ==
    /\ pc = "mapping"
    /\ \E content \in MappingContents :
        /\ ~MappingLoadRaises(content)
        /\ LET c2r      == LoadChannelMapping(content)
               regions  == UniqueRegions(combined_df, c2r)
               unmapped == UnmappedRows(combined_df, c2r)
               InRegion(region) ==
                   LET F(r) == RegionOf(r.Channel, c2r) = region
                   IN  SelectSeq(MappedRows(combined_df, c2r), F)
           IN  /\ channel_to_region' = c2r
               /\ regions_data' = [region \in regions |-> InRegion(region)]
               /\ region_pivots' =
                      [region \in regions |->
                          RegionPivot(combined_df, c2r, all_blocks_seen, region)]
               /\ csv_saved' = csv_saved \cup regions
               /\ heatmaps' \in SUBSET regions
               /\ log' = log \cup
                      {IF Len(unmapped) > 0
                       THEN Msg("unmapped_warning", Len(unmapped))
                       ELSE Msg("all_mapped", 0)}
    /\ mapping_seen' = "loaded"
    /\ pc' = "returned"
    /\ UNCHANGED <<hbvars, tnvars, guivars, disk, snirf_files, file_idx, all_averages,
                   all_blocks_seen, combined_df, detailed_pivot, report>>

-----------------------------------------------------------------------------
(* The two callers: main() of the CLI and process_files_thread of the GUI. *)

Report(caller, outcome) == [caller |-> caller, outcome |-> outcome]

\* CLI lines 455-456: the call returns; main ends with exit status 0.
CliMainReturns ==
    /\ pc = "returned"
    /\ report' = Report("cli", "exit_0")
    /\ pc' = "exit"
    /\ UNCHANGED <<hbvars, tnvars, guivars, disk, snirf_files, file_idx, all_averages,
                   all_blocks_seen, combined_df, detailed_pivot, mapping_seen,
                   channel_to_region, regions_data, region_pivots, csv_saved,
                   heatmaps, log>>

\* CLI lines 457-461: the call raises; main prints "Fatal error", exits 1.
CliMainCatches ==
    /\ pc = "raised"
    /\ report' = Report("cli", "exit_1")
    /\ pc' = "exit"
    /\ UNCHANGED <<hbvars, tnvars, guivars, disk, snirf_files, file_idx, all_averages,
                   all_blocks_seen, combined_df, detailed_pivot, mapping_seen,
                   channel_to_region, regions_data, region_pivots, csv_saved,
                   heatmaps, log>>

\* GUI lines 195-200: the call returns; the thread logs "Processing
\* completed successfully!" and shows the Success dialog.
GuiThreadReturns ==
    /\ pc = "returned"
    /\ report' = Report("gui", "showinfo_success")
    /\ pc' = "exit"
    /\ UNCHANGED <<hbvars, tnvars, guivars, disk, snirf_files, file_idx, all_averages,
                   all_blocks_seen, combined_df, detailed_pivot, mapping_seen,
                   channel_to_region, regions_data, region_pivots, csv_saved,
                   heatmaps, log>>

\* GUI lines 204-206: the call raises; the thread shows the Error dialog.
GuiThreadCatches ==
    /\ pc = "raised"
    /\ report' = Report("gui", "showerror")
    /\ pc' = "exit"
    /\ UNCHANGED <<hbvars, tnvars, guivars, disk, snirf_files, file_idx, all_averages,
                   all_blocks_seen, combined_df, detailed_pivot, mapping_seen,
                   channel_to_region, regions_data, region_pivots, csv_saved,
                   heatmaps, log>>

Next ==
    \/ GlobNoFiles
    \/ GlobFiles
    \/ LoopFileOk
    \/ LoopFileRaises
    \/ NoneProcessed
    \/ BuildDetailed
    \/ SkipNoMappingGiven
    \/ SkipMappingNotFound
    \/ LoadMappingRaises
    \/ RegionAnalysis
    \/ CliMainReturns
    \/ CliMainCatches
    \/ GuiThreadReturns
    \/ GuiThreadCatches

Spec == Init /\ [][Next]_vars

-----------------------------------------------------------------------------
(* The GUI: the handlers the Tk main loop runs on the user's clicks, and   *)
(* process_files_thread, run by the worker thread process_files starts.    *)
(* Tk delivers a click on Run only while the button is enabled; the three  *)
(* fields can be set at any time.  The worker's calls into Tk (log, the    *)
(* dialogs, the two calls of its finally clause) return; a dialog returns  *)
(* when the user closes it.  What process_snirf_files does with the files  *)
(* is the subject of Spec; here the call is taken by its three ways out.   *)

MaxRuns == 2          \* the user clicks Run at most MaxRuns times

\* What the user can put into the Input Directory field: nothing, a path
\* that is no directory, a directory without .snirf files, one with some.
InputDirChoices == {"", "no_such_dir", "empty_dir", "data_dir"}

OutputDirChoices == {"", "output"}

\* What the Channel Mapping field can hold: nothing, a path that is no
\* file, a file.
MappingFileChoices == {"", "no_such.json", "map.json"}

IsDir(path) == path \in {"empty_dir", "data_dir"}            \* os.path.isdir

HasSnirfFiles(path) == path = "data_dir"                     \* glob("*.snirf")

IsFile(path) == path = "map.json"                            \* os.path.isfile

InitGui ==
    /\ HbIdle
    /\ TnIdle
    /\ GuiFresh
    /\ RunFresh
    /\ disk = <<>>
    /\ pc = "idle"

\* browse_input, lines 96-101: a directory was chosen.
BrowseInput ==
    /\ \E directory \in InputDirChoices \ {"", input_dir} :
          input_dir' = directory
    /\ log' = log \cup {Msg("input_directory_set", 0)}
    /\ UNCHANGED <<hbvars, tnvars, disk, snirf_files, file_idx, all_averages,
                   all_blocks_seen, combined_df, detailed_pivot, mapping_seen,
                   channel_to_region, regions_data, region_pivots, csv_saved,
                   heatmaps, pc, report, process_button, progress, sys_stdout,
                   old_stdout, thread_pc, threads, runs, output_dir,
                   mapping_file, th_input_dir, th_mapping_file>>

\* The Output Directory entry, line 56: the field is emptied or refilled.
EditOutput ==
    /\ \E directory \in OutputDirChoices \ {output_dir} :
          output_dir' = directory
    /\ UNCHANGED <<hbvars, tnvars, runvars, process_button, progress,
                   sys_stdout, old_stdout, thread_pc, threads, runs,
                   input_dir, mapping_file, th_input_dir, th_mapping_file>>

\* The Channel Mapping entry, line 67: the field is set, or emptied.
EditMapping ==
    /\ \E filename \in MappingFileChoices \ {mapping_file} :
          mapping_file' = filename
    /\ UNCHANGED <<hbvars, tnvars, runvars, process_button, progress,
                   sys_stdout, old_stdout, thread_pc, threads, runs,
                   input_dir, output_dir, th_input_dir, th_mapping_file>>

\* validate_inputs, lines 136-155: the dialog it shows and fails with, or
\* "ok".
InputError ==
    IF input_dir = "" THEN "showerror_no_input_dir"
    ELSE IF ~IsDir(input_dir) THEN "showerror_not_a_directory"
    ELSE IF ~HasSnirfFiles(input_dir) THEN "showerror_no_snirf_files"
    ELSE IF output_dir = "" THEN "showerror_no_output_dir"
    ELSE "ok"

\* Lines 158-159: the mapping field names a path that is no file.
MappingQuestioned == mapping_file # "" /\ ~IsFile(mapping_file)

\* Lines 213-214: validate_inputs returns False, after an Error dialog or
\* after the user answered No to the mapping question; process_files
\* returns.
ProcessFilesRejected ==
    /\ process_button = "normal"
    /\ runs < MaxRuns
    /\ \/ /\ InputError # "ok"
          /\ report' = Report("gui", InputError)
       \/ /\ InputError = "ok"
          /\ MappingQuestioned
          /\ report' = Report("gui", "askyesno_no")
    /\ runs' = runs + 1
    /\ UNCHANGED <<hbvars, tnvars, disk, snirf_files, file_idx, all_averages,
                   all_blocks_seen, combined_df, detailed_pivot, mapping_seen,
                   channel_to_region, regions_data, region_pivots, csv_saved,
                   heatmaps, log, pc, process_button, progress, sys_stdout,
                   old_stdout, thread_pc, threads, input_dir, output_dir,
                   mapping_file, th_input_dir, th_mapping_file>>

\* A plausible slip of line 218: the button left enabled.
ProcessFilesButtonLeftEnabled ==
    /\ process_button = "normal"
    /\ runs < MaxRuns
    /\ InputError = "ok"
    /\ mapping_file' = (IF MappingQuestioned THEN "" ELSE mapping_file)
    /\ process_button' = process_button
    /\ progress' = "running"
    /\ log' = {Msg("starting", 0)}
    /\ thread_pc' = "begin"
    /\ threads' = threads + 1
    /\ runs' = runs + 1
    /\ UNCHANGED <<hbvars, tnvars, disk, snirf_files, file_idx, all_averages,
                   all_blocks_seen, combined_df, detailed_pivot, mapping_seen,
                   channel_to_region, regions_data, region_pivots, csv_saved,
                   heatmaps, pc, report, sys_stdout, old_stdout, input_dir,
                   output_dir, th_input_dir, th_mapping_file>>

\* Lines 213-226: validate_inputs returns True, having emptied a mapping
\* field that names no file (the user answered Yes); the output area is
\* cleared, the button disabled, the progress bar started, the first lines
\* logged and the worker thread started.
ProcessFiles ==
    /\ process_button = "normal"
    /\ runs < MaxRuns
    /\ InputError = "ok"
    /\ mapping_file' = (IF MappingQuestioned THEN "" ELSE mapping_file)
    /\ process_button' = "disabled"
    /\ progress' = "running"
    /\ log' = {Msg("starting", 0)}
    /\ thread_pc' = "begin"
    /\ threads' = threads + 1
    /\ runs' = runs + 1
    /\ UNCHANGED <<hbvars, tnvars, disk, snirf_files, file_idx, all_averages,
                   all_blocks_seen, combined_df, detailed_pivot, mapping_seen,
                   channel_to_region, regions_data, region_pivots, csv_saved,
                   heatmaps, pc, report, sys_stdout, old_stdout, input_dir,
                   output_dir, th_input_dir, th_mapping_file>>

\* Lines 175-195: the worker reads the fields, saves sys.stdout, binds it
\* to the redirector and calls process_snirf_files.
ThreadRedirects ==
    /\ thread_pc = "begin"
    /\ th_input_dir' = input_dir
    /\ th_mapping_file' = mapping_file
    /\ old_stdout' = sys_stdout
    /\ sys_stdout' = "redirector"
    /\ thread_pc' = "calling"
    /\ pc' = "start"
    /\ mapping_seen' = "unread"
    /\ csv_saved' = {}
    /\ UNCHANGED <<hbvars, tnvars, disk, snirf_files, file_idx, all_averages,
                   all_blocks_seen, combined_df, detailed_pivot,
                   channel_to_region, regions_data, region_pivots, heatmaps,
                   log, report, process_button, progress, threads, runs,
                   input_dir, output_dir, mapping_file>>

\* process_snirf_files returns early: no .snirf file in the directory the
\* worker read from the field (CLI lines 216-218), or files of which none
\* was processed (CLI lines 254-256).
CallReturnsEarly ==
    /\ thread_pc = "calling"
    /\ pc = "start"
    /\ log' = log \cup {IF HasSnirfFiles(th_input_dir)
                       THEN Msg("none_processed", 0)
                       ELSE Msg("no_snirf_files", 0)}
    /\ pc' = "returned"
    /\ UNCHANGED <<hbvars, tnvars, guivars, disk, snirf_files, file_idx,
                   all_averages, all_blocks_seen, combined_df, detailed_pivot,
                   mapping_seen, channel_to_region, regions_data,
                   region_pivots, csv_saved, heatmaps, report>>

\* process_snirf_files runs to its end (CLI lines 259-394): the detailed
\* table is saved, and the mapping was not given, not found or loaded.
CallCompletes ==
    /\ thread_pc = "calling"
    /\ pc = "start"
    /\ HasSnirfFiles(th_input_dir)
    /\ csv_saved' = {"detailed"}
    /\ mapping_seen' = (IF th_mapping_file = "" THEN "absent"
                        ELSE IF IsFile(th_mapping_file) THEN "loaded"
                        ELSE "missing")
    /\ pc' = "returned"
    /\ UNCHANGED <<hbvars, tnvars, guivars, disk, snirf_files, file_idx,
                   all_averages, all_blocks_seen, combined_df, detailed_pivot,
                   channel_to_region, regions_data, region_pivots, heatmaps,
                   log, report>>

\* process_snirf_files raises: the mapping file does not load (CLI line
\* 290), after the detailed table was saved.
CallRaises ==
    /\ thread_pc = "calling"
    /\ pc = "start"
    /\ HasSnirfFiles(th_input_dir)
    /\ IsFile(th_mapping_file)
    /\ csv_saved' = {"detailed"}
    /\ mapping_seen' = "invalid"
    /\ pc' = "raised"
    /\ UNCHANGED <<hbvars, tnvars, guivars, disk, snirf_files, file_idx,
                   all_averages, all_blocks_seen, combined_df, detailed_pivot,
                   channel_to_region, regions_data, region_pivots, heatmaps,
                   log, report>>

\* Lines 196-200: the call returned, early or not; the worker logs the
\* success lines and shows the Success dialog.
ThreadShowsSuccess ==
    /\ thread_pc = "calling"
    /\ GuiThreadReturns

\* Lines 201-202, the inner finally: after the dialog, or on the way out
\* of the try when the call raised.
ThreadRestoresStdout ==
    /\ thread_pc = "calling"
    /\ pc \in {"exit", "raised"}
    /\ sys_stdout' = old_stdout
    /\ thread_pc' = "restored"
    /\ UNCHANGED <<hbvars, tnvars, runvars, process_button, progress,
                   old_stdout, threads, runs, input_dir, output_dir,
                   mapping_file, th_input_dir, th_mapping_file>>

\* Lines 204-206: the except clause logs the error and shows the dialog.
ThreadShowsError ==
    /\ thread_pc = "restored"
    /\ GuiThreadCatches

\* Lines 207-209, the outer finally; with it the worker is over.
ThreadFinally ==
    /\ thread_pc = "restored"
    /\ pc = "exit"
    /\ progress' = "stopped"
    /\ process_button' = "normal"
    /\ thread_pc' = "none"
    /\ threads' = threads - 1
    /\ UNCHANGED <<hbvars, tnvars, runvars, sys_stdout, old_stdout, runs,
                   input_dir, output_dir, mapping_file, th_input_dir,
                   th_mapping_file>>

\* The steps of the worker thread.
WorkerStep ==
    \/ ThreadRedirects
    \/ CallReturnsEarly
    \/ CallCompletes
    \/ CallRaises
    \/ ThreadShowsSuccess
    \/ ThreadRestoresStdout
    \/ ThreadShowsError
    \/ ThreadFinally

NextGui ==
    \/ BrowseInput
    \/ EditOutput
    \/ EditMapping
    \/ ProcessFilesRejected
    \/ ProcessFiles
    \/ WorkerStep

\* A started thread is scheduled until it is over.
SpecGui == InitGui /\ [][NextGui]_vars /\ WF_vars(WorkerStep)

-----------------------------------------------------------------------------
(* extract_trial_name on the paths glob("*.snirf") can return: a directory *)
(* part, then a name made of up to MaxNameTokens tokens, then ".snirf".    *)

MaxNameTokens == 4

NameTokens == {<<"a">>, <<"b">>, <<"_">>, DotSnirf}

\* The directory part of a path: none, or a directory whose own name has
\* underscores.
DirParts == {<<>>, InputDir, <<"d", "_", "1", "_", "2", "/">>}

RECURSIVE TokenStrings(_)
TokenStrings(k) ==
    IF k = 0 THEN {<<>>}
    ELSE TokenStrings(k - 1) \cup
         {s \o t : s \in TokenStrings(k - 1), t \in NameTokens}

\* A name starts with a letter or an underscore.
SnirfPaths(max_tokens) ==
    {dir \o stem \o DotSnirf :
        dir \in DirParts,
        stem \in {t \in TokenStrings(max_tokens) : t # <<>> /\ t[1] # "."}}

InitTrial ==
    /\ tn_file \in SnirfPaths(MaxNameTokens)
    /\ tn_name = <<>>
    /\ tn_pc = "ready"
    /\ HbIdle
    /\ RunFresh
    /\ disk = <<>>
    /\ pc = "idle"
    /\ GuiFresh

\* Lines 22-29: the call.
ExtractTrial ==
    /\ tn_pc = "ready"
    /\ tn_name' = ExtractTrialName(tn_file)
    /\ tn_pc' = "done"
    /\ UNCHANGED <<tn_file, hbvars, runvars, guivars>>

NextTrial == ExtractTrial

SpecTrial == InitTrial /\ [][NextTrial]_vars

-----------------------------------------------------------------------------
(* The extractor on annotated series whose annotations may share a sample  *)
(* index or sit at n_samples, the index one past the last sample.          *)

TieLabels == {"A", ""}

TieEventLists(n, max_events) ==
    UNION {
        {ev \in [1..k -> [sample : 0..n, label : TieLabels]] :
            IsSortedEvents(ev)} : k \in 1..max_events}

TieSeries(max_samples, max_events) ==
    UNION {
        {[ch_names |-> cs, sfreq |-> SFreq, events |-> ev,
          data |-> ChannelData(base, Len(cs))] :
            ev \in TieEventLists(n, max_events), base \in [1..n -> Values]} :
        cs \in HbChannelLists, n \in 1..max_samples}

InitTies ==
    /\ raw_haemo \in TieSeries(MaxSamples, MaxEvents + 1)
    /\ blocks = <<>>
    /\ results = <<>>
    /\ hb_pc = "ready"
    /\ RunIdle

NextTies == HbWithEvents

SpecTies == InitTies /\ [][NextTies]_vars

-----------------------------------------------------------------------------
(* The extractor on one recording of 200 samples at 5 Hz with channels     *)
(* "S1_D1 hbo" and "S1_D1 hbr" and annotations at samples 0, 50 and 120,   *)
(* whatever the annotations are called and whatever the signal is.         *)

ExampleChannels == <<ChHbO1, ChHbR1>>

ExampleSignals == {[t \in 1..200 |-> (k * t) % 3] : k \in 0..2}

ExampleSeries ==
    {[ch_names |-> ExampleChannels, sfreq |-> SFreq,
      events |-> <<Ev(0, l[1]), Ev(50, l[2]), Ev(120, l[3])>>,
      data |-> ChannelData(base, Len(ExampleChannels))] :
        l \in [1..3 -> AnnotationLabels], base \in ExampleSignals}

InitExample ==
    /\ raw_haemo \in ExampleSeries
    /\ blocks = <<>>
    /\ results = <<>>
    /\ hb_pc = "ready"
    /\ RunIdle

NextExample == HbWithEvents

SpecExample == InitExample /\ [][NextExample]_vars

-----------------------------------------------------------------------------
(* Claims about get_hemoglobin_averages, checked under SpecHb.             *)

\* C1: for a series with at least one annotation the blocks are contiguous
\* and cover [0, n_samples): the first block starts at sample 0, each block
\* ends where the next one starts, and the last block ends at n_samples.
C1_BlocksCoverRecording ==
    (hb_pc = "done" /\ Len(raw_haemo.events) > 0) =>
        /\ blocks[1].start = 0
        /\ \A i \in 1..(Len(blocks) - 1) : blocks[i].end = blocks[i + 1].start
        /\ blocks[Len(blocks)].end = NSamples(raw_haemo)

\* C2: for a series with zero annotations there is exactly one row per
\* channel, in channel order, each labeled "Entire_Recording", lasting
\* n_samples / sample_rate seconds and averaging the whole sample range.
C2_EntireRecording ==
    (hb_pc = "done" /\ Len(raw_haemo.events) = 0) =>
        /\ Len(results) = Len(raw_haemo.ch_names)
        /\ \A c \in 1..Len(results) :
              /\ results[c].Channel = raw_haemo.ch_names[c]
              /\ results[c].Block = "Entire_Recording"
              /\ ~results[c].Block_Duration_s.nan
              /\ results[c].Block_Duration_s.num * raw_haemo.sfreq
                    = NSamples(raw_haemo) * results[c].Block_Duration_s.den
              /\ ~results[c].Mean_Value.nan
              /\ results[c].Mean_Value.num * NSamples(raw_haemo)
                    = SumSeq(raw_haemo.data[c]) * results[c].Mean_Value.den

\* C2's case: a two-channel series without annotations has been extracted.
C2_Witness ==
    /\ hb_pc = "done"
    /\ Len(raw_haemo.events) = 0
    /\ Len(raw_haemo.ch_names) = 2
    /\ Len(results) = 2

-----------------------------------------------------------------------------
(* Claims about zero-length blocks, checked under SpecTies.                *)

\* xs without its i-th element.
RemoveAt(xs, i) == SubSeq(xs, 1, i - 1) \o SubSeq(xs, i + 1, Len(xs))

\* The series raw without its i-th annotation.
WithoutEvent(raw, i) == [raw EXCEPT !.events = RemoveAt(raw.events, i)]

\* The rows of block b (1-based) of a frame of n_channels channels.
BlockRows(df, n_channels, b) == SubSeq(df, (b - 1) * n_channels + 1, b * n_channels)

\* What a row says of its block apart from the block's label.
Measured(r) ==
    [Trial |-> r.Trial, Channel |-> r.Channel, HbType |-> r.HbType,
     Mean_Value |-> r.Mean_Value, Std_Value |-> r.Std_Value,
     Block_Duration_s |-> r.Block_Duration_s]

MeasuredRows(rows) == [k \in 1..Len(rows) |-> Measured(rows[k])]

IsZeroLength(w) == w.start = w.end

\* C13: a zero-length block (two annotations at one sample index, or the
\* last annotation at n_samples) does not make the extraction fail: the
\* call returns rows for every block; the zero-length block has one row
\* per channel, in channel order, with duration 0 and with mean and std
\* "no value"; and every other block has the window, the label (where the
\* annotation gives one) and the rows it has when the annotation of the
\* zero-length block is taken out of the series.
C13_ZeroLengthBlock ==
    hb_pc = "done" =>
          LET nc == Len(raw_haemo.ch_names)
              ne == Len(raw_haemo.events)
          IN  /\ Len(blocks) = ne
              /\ Len(results) = ne * nc
              /\ \A b \in 1..ne :
                    IsZeroLength(blocks[b]) =>
                        /\ \A c \in 1..nc :
                              LET r == results[(b - 1) * nc + c]
                              IN  /\ r.Channel = raw_haemo.ch_names[c]
                                  /\ r.Block = blocks[b].label
                                  /\ r.Block_Duration_s = Rat(0, 1)
                                  /\ r.Mean_Value = NaN
                                  /\ r.Std_Value = NaN
                        /\ LET less  == WithoutEvent(raw_haemo, b)
                               w     == BlockWindows(less)
                               rows  == EventRows(less, TrialX)
                           IN  \A j \in (1..ne) \ {b} :
                                  LET m == IF j < b THEN j ELSE j - 1
                                  IN  /\ blocks[j].start = w[m].start
                                      /\ blocks[j].end = w[m].end
                                      /\ raw_haemo.events[j].label # "" =>
                                            blocks[j].label = w[m].label
                                      /\ MeasuredRows(BlockRows(results, nc, j))
                                            = MeasuredRows(BlockRows(rows, nc, m))
              /\ \A b \in 1..ne :
                    ~IsZeroLength(blocks[b]) =>
                        \A c \in 1..nc :
                            /\ IsValue(results[(b - 1) * nc + c].Mean_Value)
                            /\ IsValue(results[(b - 1) * nc + c].Std_Value)

\* C13's case: two annotations share a sample index, with one block before
\* and one block after the zero-length block they make, both with samples.
C13_Witness ==
    /\ hb_pc = "done"
    /\ Len(blocks) = 3
    /\ ~IsZeroLength(blocks[1])
    /\ IsZeroLength(blocks[2])
    /\ ~IsZeroLength(blocks[3])
    /\ raw_haemo.events[2].sample = raw_haemo.events[3].sample
    /\ Len(results) = 3 * Len(raw_haemo.ch_names)
    /\ results[Len(raw_haemo.ch_names) + 1].Mean_Value = NaN

-----------------------------------------------------------------------------
(* Claims about the 200-sample recording, checked under SpecExample.       *)

Window(start, end) == [start |-> start, end |-> end]

WindowsOf(bs) == [i \in 1..Len(bs) |-> Window(bs[i].start, bs[i].end)]

\* The number of rows of df whose HbType is one of types.
CountTagged(df, types) == Cardinality({k \in 1..Len(df) : df[k].HbType \in types})

\* The duration, in whole seconds, of the rows of block b (1-based) of a
\* frame of n_channels channels; 0 - 1 when the rows disagree or the
\* duration is no whole number.
BlockSeconds(df, n_channels, b) ==
    LET d == df[(b - 1) * n_channels + 1].Block_Duration_s
    IN  IF /\ ~d.nan
           /\ d.den = 1
           /\ \A c \in 1..n_channels :
                 df[(b - 1) * n_channels + c].Block_Duration_s = d
        THEN d.num
        ELSE 0 - 1

\* What the recording yields whatever the tags: three blocks [0,50),
\* [50,120), [120,200) lasting 10 s, 14 s and 16 s, and six rows, two
\* channels for each of the three blocks.
ExampleBlocksAndRows ==
    /\ WindowsOf(blocks) = <<Window(0, 50), Window(50, 120), Window(120, 200)>>
    /\ Len(results) = 6
    /\ \A b \in 1..3 : \A c \in 1..2 :
          results[(b - 1) * 2 + c].Channel = ExampleChannels[c]
    /\ BlockSeconds(results, 2, 1) = 10
    /\ BlockSeconds(results, 2, 2) = 14
    /\ BlockSeconds(results, 2, 3) = 16

\* C11 as stated: for the recording above the extractor yields the three
\* blocks with durations 10 s, 14 s, 16 s and six rows, of which two are
\* tagged "HbO" and four are tagged "HbR" or "Unknown".
C11_ExampleTwoHbOFourOther ==
    hb_pc = "done" =>
        /\ ExampleBlocksAndRows
        /\ CountTagged(results, {"HbO"}) = 2
        /\ CountTagged(results, {"HbR", "Unknown"}) = 4

\* C11 amended: for the recording above the extractor yields the three
\* blocks with durations 10 s, 14 s, 16 s and six rows, of which three
\* are tagged "HbO" (channel "S1_D1 hbo", once per block), three are
\* tagged "HbR" (channel "S1_D1 hbr", once per block) and none "Unknown".
C11_ExampleThreeHbOThreeHbR ==
    hb_pc = "done" =>
        /\ ExampleBlocksAndRows
        /\ CountTagged(results, {"HbO"}) = 3
        /\ CountTagged(results, {"HbR"}) = 3
        /\ CountTagged(results, {"Unknown"}) = 0
        /\ \A k \in 1..Len(results) :
              results[k].HbType = (IF k % 2 = 1 THEN "HbO" ELSE "HbR")

\* C11's case: the recording has been extracted into six rows.
C11_Witness ==
    /\ hb_pc = "done"
    /\ raw_haemo \in ExampleSeries
    /\ Len(blocks) = 3
    /\ Len(results) = 6

-----------------------------------------------------------------------------
(* Claims about process_snirf_files and its callers, checked under Spec.   *)

AfterLoop == pc \in {"mapping", "returned", "raised", "exit"} /\ snirf_files # <<>>

IsPrefix(a, b) == Len(a) <= Len(b) /\ SubSeq(b, 1, Len(a)) = a

NoDuplicates(xs) == \A i, j \in 1..Len(xs) : xs[i] = xs[j] => i = j

\* The labels of a converted recording in the order its blocks occur.
LabelsInFileOrder(raw) ==
    IF raw.events = <<>> THEN <<"Entire_Recording">>
    ELSE [i \in 1..Len(raw.events) |-> EventLabel(raw.events, i - 1)]

\* a occurs in xs, and b occurs in xs at or after the first a.
OccursNoLater(xs, a, b) ==
    \E i, j \in 1..Len(xs) :
        /\ xs[i] = a /\ xs[j] = b /\ i <= j
        /\ \A k \in 1..(i - 1) : xs[k] # a
        /\ \A k \in 1..(j - 1) : xs[k] # b

\* C3: during the file loop the block-order list is append-only and
\* duplicate-free: over every step of the loop the old list is a prefix of
\* the new one, no label occurs twice, a failing file appends nothing, and
\* the labels a file appends are exactly its labels not yet listed, in the
\* order of their first occurrence in that file.
C3_BlockOrderAppendOnly ==
    [][(pc = "loop" /\ file_idx' = file_idx + 1) =>
          LET old   == all_blocks_seen
              new   == all_blocks_seen'
              added == SubSeq(new, Len(old) + 1, Len(new))
              file  == disk[Basename(snirf_files[file_idx + 1])]
          IN  /\ IsPrefix(old, new)
              /\ NoDuplicates(new)
              /\ ~file.ok => added = <<>>
              /\ file.ok =>
                    /\ Range(added) = Range(LabelsInFileOrder(file.raw)) \ Range(old)
                    /\ \A i, j \in 1..Len(added) :
                          i < j => OccursNoLater(LabelsInFileOrder(file.raw),
                                                 added[i], added[j])]_vars

\* C3's case: a file with blocks [A, B] then a file with blocks [B, C]
\* have been processed, and the list is [A, B, C].
C3_Witness ==
    /\ pc = "loop"
    /\ file_idx = 2
    /\ Len(snirf_files) = 2
    /\ disk[Basename(snirf_files[1])].ok
    /\ disk[Basename(snirf_files[2])].ok
    /\ LabelsInFileOrder(disk[Basename(snirf_files[1])].raw) = <<"A", "B">>
    /\ LabelsInFileOrder(disk[Basename(snirf_files[2])].raw) = <<"B", "C">>
    /\ all_blocks_seen = <<"A", "B", "C">>

\* C4: the block order a run ends with does not depend on the order in
\* which the directory listing enumerated the files: every other
\* enumeration of the same directory yields the same list.
C4_OrderIndependentOfListing ==
    AfterLoop =>
        \A other \in Listings(disk) :
            FileLoop(disk, other).blocks_seen = all_blocks_seen

SuccessReports == {"exit_0", "showinfo_success"}

\* C5: when every file of a non-empty directory failed, the caller does
\* not report success.
C5_NoFileProcessedIsFatal ==
    (pc = "exit" /\ snirf_files # <<>> /\ all_averages = <<>>) =>
        report.outcome \notin SuccessReports

OkPositions == {k \in 1..Len(snirf_files) : disk[Basename(snirf_files[k])].ok}

BlockCount(raw) == IF raw.events = <<>> THEN 1 ELSE Len(raw.events)

RECURSIVE SumOver(_, _)
SumOver(S, f) ==
    IF S = {} THEN 0
    ELSE LET x == CHOOSE y \in S : TRUE IN f[x] + SumOver(S \ {x}, f)

\* The number of rows the files that convert are due: blocks x channels.
RowsDue ==
    SumOver(OkPositions,
            [k \in OkPositions |->
                LET raw == disk[Basename(snirf_files[k])].raw
                IN  BlockCount(raw) * Len(raw.ch_names)])

\* C6: a failing file never aborts the run.  Once the loop is over every
\* file of the listing was gone through, each failing file was logged and
\* each other file processed; the frames kept are those of the files that
\* convert, one each; the block labels are those of such files only; and
\* the combined results hold every row of every such file.
C6_FileFailureIsLocal ==
    /\ pc = "loop" => file_idx <= Len(snirf_files)
    /\ AfterLoop =>
        /\ file_idx = Len(snirf_files)
        /\ \A k \in 1..Len(snirf_files) :
              IF k \in OkPositions
              THEN Msg("processed", k) \in log /\ Msg("file_error", k) \notin log
              ELSE Msg("file_error", k) \in log /\ Msg("processed", k) \notin log
        /\ Len(all_averages) = Cardinality(OkPositions)
        /\ Range(all_blocks_seen) =
              UNION {Range(LabelsInFileOrder(disk[Basename(snirf_files[k])].raw)) :
                        k \in OkPositions}
        /\ "detailed" \in csv_saved =>
              LET held == {<<combined_df[i].Trial, combined_df[i].Channel,
                             combined_df[i].Block>> : i \in 1..Len(combined_df)}
              IN  /\ Len(combined_df) = RowsDue
                  /\ \A k \in OkPositions :
                        LET raw == disk[Basename(snirf_files[k])].raw
                        IN  \A c \in 1..Len(raw.ch_names) :
                              \A l \in Range(LabelsInFileOrder(raw)) :
                                <<ExtractTrialName(snirf_files[k]),
                                  raw.ch_names[c], l>> \in held

\* C6's case: the first file failed, a later one was processed, and the
\* combined results were built.
C6_Witness ==
    /\ pc = "mapping"
    /\ Len(snirf_files) = 2
    /\ 1 \notin OkPositions
    /\ 2 \in OkPositions
    /\ Msg("file_error", 1) \in log
    /\ Len(combined_df) > 0

\* C7: a mapping artifact that is absent, missing or invalid is never
\* fatal: the run does not raise, the detailed table was saved, and no
\* region table and no heatmap is produced.
C7_MappingNeverFatal ==
    mapping_seen \in {"absent", "missing", "invalid"} =>
        /\ pc # "raised"
        /\ report.outcome \notin {"exit_1", "showerror"}
        /\ "detailed" \in csv_saved
        /\ csv_saved = {"detailed"}
        /\ heatmaps = {}

\* The rows of region whose trial and block are t and b.
RegionGroup(region, t, b) ==
    LET G(r) == r.Trial = t /\ r.Block = b
    IN  SelectSeq(regions_data[region], G)

\* The mean of the values of one channel within a group of rows.
ChannelMean(rows, ch) ==
    LET OfCh(r) == r.Channel = ch
        own     == SelectSeq(rows, OfCh)
    IN  MeanSkipNaN([k \in 1..Len(own) |-> own[k].Mean_Value])

RECURSIVE SetToSeq(_)
SetToSeq(S) ==
    IF S = {} THEN <<>>
    ELSE LET x == CHOOSE y \in S : TRUE IN <<x>> \o SetToSeq(S \ {x})

\* First one mean per channel, then the mean of those.
TwoStageMean(rows) ==
    LET chs == SetToSeq({rows[k].Channel : k \in 1..Len(rows)})
    IN  MeanSkipNaN([k \in 1..Len(chs) |-> ChannelMean(rows, chs[k])])

\* C8: each cell of a region table is the mean, over the channels of the
\* region, of the channel's mean for that trial and block.
C8_RegionCellIsMeanOfChannelMeans ==
    mapping_seen = "loaded" =>
        \A region \in DOMAIN region_pivots :
            \A t \in region_pivots[region].index :
                \A b \in Range(region_pivots[region].columns) :
                    region_pivots[region].cells[<<t, b>>]
                        = TwoStageMean(RegionGroup(region, t, b))

\* The block labels for which some row of df carries a value.
LabelsWithValue(df) ==
    {df[k].Block : k \in {i \in 1..Len(df) : IsValue(df[i].Mean_Value)}}

\* cols is order restricted to the labels of present, in order's order.
IsRestrictionOf(cols, order, present) ==
    /\ Range(cols) = Range(order) \cap present
    /\ NoDuplicates(cols)
    /\ \A i, j \in 1..Len(cols) :
          i < j => \E m, n \in 1..Len(order) :
                      m < n /\ order[m] = cols[i] /\ order[n] = cols[j]

\* C9: the columns of the detailed table and of every region table are the
\* block order restricted to the labels the table's data holds a value
\* for: each column is a label of the block order, none occurs twice, and
\* any two columns stand in the order they have in the block order.
C9_ColumnsFollowBlockOrder ==
    /\ "detailed" \in csv_saved =>
          IsRestrictionOf(detailed_pivot.columns, all_blocks_seen,
                          LabelsWithValue(SelectSeq(combined_df, IsHbO)))
    /\ mapping_seen = "loaded" =>
          \A region \in DOMAIN region_pivots :
              IsRestrictionOf(region_pivots[region].columns, all_blocks_seen,
                              LabelsWithValue(regions_data[region]))

\* C9's case: two files were listed so that the block order is [B, C, A],
\* and a saved table has several columns in that order.
C9_Witness ==
    /\ mapping_seen = "loaded"
    /\ all_blocks_seen = <<"B", "C", "A">>
    /\ detailed_pivot.columns = <<"B", "C", "A">>
    /\ \E region \in DOMAIN region_pivots :
          Len(region_pivots[region].columns) >= 2

\* s holds a substring S<digits>_D<digits>.
HasSDPattern(s) ==
    \E i \in 1..Len(s) :
        /\ s[i] = "S"
        /\ \E j \in (i + 1)..Len(s) :
              /\ \A m \in (i + 1)..j : s[m] \in Digits
              /\ j + 3 <= Len(s)
              /\ s[j + 1] = "_" /\ s[j + 2] = "D" /\ s[j + 3] \in Digits

\* The channel labels that are unmapped under the lookup c2r: no such
\* substring, or a key the lookup lacks.
UnmappedChannels(chs, c2r) ==
    {ch \in chs : ~HasSDPattern(ch) \/ ExtractSourceDetector(ch) \notin DOMAIN c2r}

ValidLookups ==
    {LoadChannelMapping(content) :
        content \in {c \in MappingContents : ~MappingLoadRaises(c)}}

\* C10: a channel without an S<number>_D<number> substring is unmapped
\* whatever the mapping holds; the rows of an unmapped HbO channel are
\* averaged into no region table, every one of them that carries a value
\* is a cell of the detailed table, and their number is reported as a
\* warning while the run returns normally.
C10_UnmappedChannels ==
    mapping_seen = "loaded" =>
        LET chs        == {combined_df[k].Channel : k \in 1..Len(combined_df)}
            unmappedCh == UnmappedChannels(chs, channel_to_region)
            IsUnmappedRow(r) == r.HbType = "HbO" /\ r.Channel \in unmappedCh
            unmapped   == SelectSeq(combined_df, IsUnmappedRow)
        IN  /\ \A ch \in chs :
                  ~HasSDPattern(ch) =>
                      \A c2r \in ValidLookups : RegionOf(ch, c2r) = NoRegion
            /\ \A region \in DOMAIN regions_data :
                  \A k \in 1..Len(regions_data[region]) :
                      regions_data[region][k].Channel \notin unmappedCh
            /\ \A k \in 1..Len(unmapped) :
                  IsValue(unmapped[k].Mean_Value) =>
                      /\ RowLabel(unmapped[k]) \in detailed_pivot.index
                      /\ unmapped[k].Block \in Range(detailed_pivot.columns)
                      /\ IsValue(detailed_pivot.cells[
                             <<RowLabel(unmapped[k]), unmapped[k].Block>>])
            /\ Len(unmapped) > 0 => Msg("unmapped_warning", Len(unmapped)) \in log
            /\ pc \in {"returned", "exit"}
            /\ report.outcome \notin {"exit_1", "showerror"}

\* C10's case: a run with an HbO channel that has no S<n>_D<n> substring
\* and an HbO channel whose key the mapping lacks ended normally with
\* region tables, after the warning.
C10_Witness ==
    /\ mapping_seen = "loaded"
    /\ pc = "exit"
    /\ DOMAIN region_pivots # {}
    /\ \E k \in 1..Len(combined_df) :
          /\ combined_df[k].HbType = "HbO"
          /\ ~HasSDPattern(combined_df[k].Channel)
    /\ \E k \in 1..Len(combined_df) :
          /\ combined_df[k].HbType = "HbO"
          /\ HasSDPattern(combined_df[k].Channel)
          /\ ExtractSourceDetector(combined_df[k].Channel)
                \notin DOMAIN channel_to_region
    /\ \E n \in 1..Len(combined_df) : Msg("unmapped_warning", n) \in log

-----------------------------------------------------------------------------
(* Claims about extract_trial_name, checked under SpecTrial.               *)

EndsWith(s, p) == Len(p) <= Len(s) /\ SubSeq(s, Len(s) - Len(p) + 1, Len(s)) = p

\* A file name without its extension: the trailing ".snirf" taken off.
StripExtension(filename) ==
    IF EndsWith(filename, DotSnirf)
    THEN SubSeq(filename, 1, Len(filename) - Len(DotSnirf))
    ELSE filename

\* C12: extract_trial_name returns for every file name, and if the name
\* with its extension stripped splits into three or more parts at the
\* underscores the result is the second and third parts joined by an
\* underscore, and otherwise the whole name with its extension stripped.
C12_TrialNamePolicy ==
    /\ tn_pc = "ready" => ENABLED ExtractTrial
    /\ tn_pc = "done" =>
          LET stem  == StripExtension(Basename(tn_file))
              parts == Split(stem, "_")
          IN  IF Len(parts) >= 3
              THEN tn_name = parts[2] \o <<"_">> \o parts[3]
              ELSE tn_name = stem

-----------------------------------------------------------------------------
(* Claims about the GUI, checked under SpecGui.                            *)

WorkerRuns == threads > 0

GuiAtRest ==
    /\ process_button = "normal"
    /\ progress = "stopped"
    /\ sys_stdout = Console

\* C14: at most one worker thread runs at any time: the step that starts
\* a worker leaves the Run button disabled, the button is disabled for as
\* long as a worker runs, and whenever a worker runs it is eventually over
\* with the button enabled again, the progress bar stopped and sys.stdout
\* bound to the stream it was bound to before the run, whether
\* process_snirf_files completed, returned early or raised.
C14_OneWorkerButtonRestored ==
    /\ [](threads <= 1)
    /\ [][threads' > threads => process_button' = "disabled"]_vars
    /\ [](WorkerRuns => process_button = "disabled")
    /\ [](~WorkerRuns => GuiAtRest)
    /\ (WorkerRuns ~> (~WorkerRuns /\ GuiAtRest))

\* C14's case: a second run is over, its call of process_snirf_files
\* having raised, with the Error dialog shown and the window at rest.
C14_Witness ==
    /\ runs = 2
    /\ ~WorkerRuns
    /\ thread_pc = "none"
    /\ pc = "exit"
    /\ mapping_seen = "invalid"
    /\ report = Report("gui", "showerror")
    /\ old_stdout = Console
    /\ GuiAtRest

====
